---- MODULE Spec2Model ----
(***************************************************************************)
(* Model of dspy/primitives/assertions.py: the constraint primitives       *)
(* (Constraint, Assert, Suggest), the backtracking handler                 *)
(* (suggest_backtrack_handler) and the module transformer                  *)
(* (assert_transform_module / handle_assert_forward).                      *)
(*                                                                         *)
(* Python values are modelled as follows.  None is the string "None".      *)
(* A constraint's result is one of the Python objects False, True, 0       *)
(* (written as strings): 0 == False in Python, with equal hashes, so they  *)
(* meet in the same registry key, but only False and True are instances of *)
(* bool.  A uuid4 is a fresh natural number.  A text is   *)
(* a sequence of tokens, the newline being the token "\n".                 *)
(***************************************************************************)
EXTENDS Integers, Sequences, FiniteSets, TLC

None == "None"

\* ---------------------------------------------------------------- bounds
\* largest max_backtracks a run is configured with
MaxBacktracks == 3
\* largest length of dsp.settings.trace
MaxTrace == 3
\* largest number of constraint objects (uuids) created
MaxObjects == 3
\* largest number of times assert_transform_module is applied to the module
MaxTransforms == 3
\* largest number of nested calls of the module's forward the interpreter allows
RecursionLimit == 50

\* ---------------------------------------------------------------- domains
\* the steps (predictors) of the pipeline the run is over
Steps == {"A", "B"}
\* the steps of the pipeline another top-level run is over
OtherSteps == {"X"}
\* every predictor of the process
Predictors == Steps \cup OtherSteps
Msgs == {"m1", "m2"}
Results == {"False", "True", "0"}
Classes == {"Assert", "Suggest"}
\* target_module arguments of constraints
ConstraintTargets == {None}
\* target_module handler arguments
HandlerTargets == {None, "sigB"}

VARIABLES
  registry,       \* Constraint._registry: key -> constraint object (NoObj: no entry)
  nextId,         \* the next uuid4
  bypass_assert,  \* dspy.settings.bypass_assert
  bypass_suggest, \* dspy.settings.bypass_suggest
  lastEval,       \* the last constraint construction under the present flags
  pinned,         \* one earlier constraint construction, kept for comparison
  \* ---- one call of a transformed module's forward
  pc,             \* "idle", "loop", "run", "forced", "done", "raised"
  max_backtracks, \* handler argument
  target_module,  \* handler argument
  i,              \* the loop variable of the handler
  backtrack_to,   \* a step or None
  result,         \* the handler's result
  exc,            \* the exception that left the handler
  predictors_to_original_forward, \* step -> saved forward
  predictor_feedbacks,            \* step or None -> list of messages
  failure_traces, \* step or None -> ordered dict  id -> (ip, op, msg)
  trace,          \* dsp.settings.trace: list of (step, ip, op)
  extended_signature, \* step -> the keys of its extended_signature
  forward,        \* step -> the wrappers around its original forward, innermost first
  saved_flags,    \* the flags the running settings.context will restore
  \* ---- what the run did, recorded for the properties
  flags0,         \* the flags before the call
  calls,          \* number of pipeline invocations
  outcomes,       \* how each pipeline invocation ended
  onlySoft,       \* the pipeline evaluated nothing but failing Suggests
  lastRaised,     \* the last exception a pipeline invocation raised
  retOf,          \* the value the last returning pipeline invocation returned
  failLog,        \* step or None -> every message recorded against it, in order
  \* ---- the module and a call of its forward, frame by frame
  module_forward,  \* module.forward: "original", "handler" or None
  module__forward, \* module._forward: "original", "handler" or None
  transforms,      \* number of times assert_transform_module was applied
  frames,          \* nested calls of the forward made by handle_assert_forward
  at               \* "idle", "handler", "original", "returned", or the error raised

primVars == <<registry, nextId, bypass_assert, bypass_suggest, lastEval, pinned>>
runVars == <<pc, max_backtracks, target_module, i, backtrack_to, result, exc,
             predictors_to_original_forward, predictor_feedbacks, failure_traces,
             trace, extended_signature, forward, saved_flags>>
histVars == <<flags0, calls, outcomes, onlySoft, lastRaised, retOf, failLog>>
modVars == <<module_forward, module__forward, transforms, frames, at>>
vars == <<primVars, runVars, histVars, modVars>>

\* ---------------------------------------------------------------- constraint primitives
\* isinstance(result, bool)
isinstance_bool(r) == r \in {"False", "True"}

\* the equivalence class of a result under Python's == and hash
PyEq(r) == IF r \in {"False", "0"} THEN 0 ELSE 1

Keys == {0, 1} \X Msgs \X ConstraintTargets

\* key = (result, msg, target_module), as a dictionary key
KeyMutIgnoreMsg(res, msg, tmod) == <<PyEq(res), "m1", tmod>>
Key(res, msg, tmod) == <<PyEq(res), msg, tmod>>

\* an unused slot of the registry
NoObj == [cls |-> None, id |-> 0, result |-> None, msg |-> None, target_module |-> None]

\* the keys of Constraint._registry
Registry_keys(reg) == {k \in Keys : reg[k].id # 0}

\* the object Constraint.__init__ ends up calling: the registered one for the key,
\* or the new object
Bound(reg, nid, cls, res, msg, tmod) ==
  LET key == Key(res, msg, tmod)
  IN IF key \in Registry_keys(reg)
       THEN reg[key]
       ELSE [cls |-> cls, id |-> nid, result |-> res, msg |-> msg,
             target_module |-> tmod]

\* Constraint._registry after Constraint.__init__
Registered(reg, nid, cls, res, msg, tmod) ==
  LET key == Key(res, msg, tmod)
  IN IF key \in Registry_keys(reg)
       THEN reg
       ELSE [reg EXCEPT ![key] = Bound(reg, nid, cls, res, msg, tmod)]

\* the uuid counter after Constraint.__init__
NextUuid(reg, nid, res, msg, tmod) ==
  IF Key(res, msg, tmod) \in Registry_keys(reg) THEN nid ELSE nid + 1

Ok == [type |-> "ok", id |-> 0, msg |-> None]
Raise(type, id, msg) == [type |-> type, id |-> id, msg |-> msg]

\* Assert.__call__
AssertCall(self, ba) ==
  IF isinstance_bool(self.result)
    THEN IF self.result = "True" THEN Ok
         ELSE IF ba THEN Ok
         ELSE Raise("DSPyAssertionError", self.id, self.msg)
    ELSE Raise("ValueError", 0, None)

\* Suggest.__call__
SuggestCall(self, bs) ==
  IF isinstance_bool(self.result)
    THEN IF self.result = "True" THEN Ok
         ELSE IF bs THEN Ok
         ELSE Raise("DSPySuggestionError", self.id, self.msg)
    ELSE Raise("ValueError", 0, None)

\* self.__call__(): dispatch on the class of the object self is bound to
Call(self, ba, bs) ==
  IF self.cls = "Assert" THEN AssertCall(self, ba) ELSE SuggestCall(self, bs)

\* what Constraint.__init__ does for cls(result, msg, target_module): ok or the raise
Evaluate(reg, nid, cls, res, msg, tmod, ba, bs) ==
  Call(Bound(reg, nid, cls, res, msg, tmod), ba, bs)

NoEval == [cls |-> None, result |-> None, msg |-> None, target_module |-> None,
           id |-> 0, out |-> Ok]
NoPin == [result |-> None, msg |-> None, target_module |-> None, id |-> 0]
Pin(e) == [result |-> e.result, msg |-> e.msg, target_module |-> e.target_module,
           id |-> e.id]

\* ---------------------------------------------------------------- steps and their signatures
StepsOrNone == Predictors \cup {None}

\* mod.signature of a step
Signature(s) == IF s = "A" THEN "sigA" ELSE IF s = "B" THEN "sigB" ELSE "sigX"

\* the keys of a step's extended_signature as declared; each has the field "question"
DeclaredKeys(s) ==
  IF s = "B" THEN <<"context", "question", "answer">> ELSE <<"question", "answer">>

Range(s) == {s[k] : k \in 1..Len(s)}
Front(s) == SubSeq(s, 1, Len(s) - 1)
Last(s) == s[Len(s)]

\* "\n".join(feedback_msgs)
RECURSIVE _build_error_msg(_)
_build_error_msg(feedback_msgs) ==
  IF feedback_msgs = <<>> THEN <<>>
  ELSE IF Len(feedback_msgs) = 1 THEN <<feedback_msgs[1]>>
  ELSE <<Head(feedback_msgs), "\n">> \o _build_error_msg(Tail(feedback_msgs))

\* one passage "Failed Instruction: msg | Output: op" per item of the dict, in dict order
_build_trace_passages(ft) ==
  [k \in 1..Len(ft) |-> [msg |-> ft[k].msg, op |-> ft[k].op]]

\* list.index(x) + 1
Position(keys, x) ==
  CHOOSE k \in 1..Len(keys) : keys[k] = x /\ \A j \in 1..(k - 1) : keys[j] # x

\* list.insert(position, key)
Insert(keys, position, key) ==
  SubSeq(keys, 1, position) \o <<key>> \o SubSeq(keys, position + 1, Len(keys))

\* for key in ks: old_keys.insert(position, key)
RECURSIVE InsertEach(_, _, _)
InsertEach(keys, position, ks) ==
  IF ks = <<>> THEN keys
  ELSE InsertEach(Insert(keys, position, Head(ks)), position, Tail(ks))

\* reversed(kwargs)
Reversed(ks) == [k \in 1..Len(ks) |-> ks[Len(ks) + 1 - k]]

\* the keys of the dict {key: ... for key in keys}: first occurrences, in order
DictKeysMutKeepAll(keys) == keys
RECURSIVE DictKeys(_)
DictKeys(keys) ==
  IF keys = <<>> THEN <<>>
  ELSE LET r == DictKeys(Front(keys))
       IN IF Last(keys) \in Range(r) THEN r ELSE Append(r, Last(keys))

\* the keyword arguments the handler passes to _extend_predictor_signature
InjectedKeys == <<"_assert_feedback", "_assert_traces">>

\* the keys of predictor.extended_signature after _extend_predictor_signature
_extend_predictor_signature(old_keys, kwargs) ==
  DictKeys(InsertEach(old_keys, Position(old_keys, "question"), Reversed(kwargs)))

\* the keys of predictor.extended_signature after _revert_predictor_signature(predictor, *args)
_revert_predictor_signature(old_keys, args) ==
  SelectSeq(old_keys, LAMBDA k : k \notin args)

\* the positional arguments the handler passes to _revert_predictor_signature
RevertedKeys == {"feedback"}

\* the keyword arguments of a step invocation that passes none of the injected fields
NoKwargs == [has |-> FALSE, fb |-> <<>>, tr |-> <<>>]

\* the keyword arguments of a step invocation that passes its own values for them
ExplicitKwargs == [has |-> TRUE, fb |-> <<"explicit">>, tr |-> <<>>]

\* kwargs.setdefault(arg, value) for the two default_args
SetDefaults(kwargs, default_args) ==
  IF kwargs.has THEN kwargs
  ELSE [has |-> TRUE, fb |-> default_args.fb, tr |-> default_args.tr]

\* the kwargs the original forward receives: each new_forward sets its defaults and
\* calls the forward it wrapped
new_forwardMutInnermostWins(wrappers, kwargs) ==
  IF wrappers = <<>> THEN kwargs ELSE SetDefaults(kwargs, Head(wrappers))
RECURSIVE new_forward(_, _)
new_forward(wrappers, kwargs) ==
  IF wrappers = <<>> THEN kwargs
  ELSE new_forward(Front(wrappers), SetDefaults(kwargs, Last(wrappers)))

\* the completion of an augmented step carries the injected fields
HasInjected(keys) == "_assert_feedback" \in Range(keys)

\* d[id] = value on an ordered dict: replaced in place, or appended
DictSetMutReplaceAll(d, id, value) == <<value>>
DictSet(d, id, value) ==
  IF \E k \in 1..Len(d) : d[k].id = id
    THEN [k \in 1..Len(d) |-> IF d[k].id = id THEN value ELSE d[k]]
    ELSE Append(d, value)

\* the except clause of the handler: which exceptions it catches
CatchesMutAssertionError(type) == type \in {"DSPySuggestionError", "DSPyAssertionError"}
Catches(type) == type = "DSPySuggestionError"

\* backtrack_to after the handler looked for the offending step in a non-empty trace
ResolveMutFirstMatch(bt, tr, target) ==
  IF target # None
    THEN IF \E k \in 1..Len(tr) : Signature(tr[k].mod) = target
           THEN tr[CHOOSE k \in 1..Len(tr) : /\ Signature(tr[k].mod) = target
                                              /\ \A j \in 1..(k - 1) :
                                                   Signature(tr[j].mod) # target].mod
           ELSE bt
    ELSE tr[1].mod
Resolve(bt, tr, target) ==
  IF target # None
    THEN IF \E k \in 1..Len(tr) : Signature(tr[k].mod) = target
           THEN tr[CHOOSE k \in 1..Len(tr) : /\ Signature(tr[k].mod) = target
                                              /\ \A j \in (k + 1)..Len(tr) :
                                                   Signature(tr[j].mod) # target].mod
           ELSE bt
    ELSE tr[Len(tr)].mod

\* predictor_feedbacks[backtrack_to] after the handler saved the message
SaveFeedbackMutNoDedup(msgs, error_msg) == Append(msgs, error_msg)
SaveFeedbackMutKeepLast(msgs, error_msg) == <<error_msg>>
SaveFeedback(msgs, error_msg) ==
  IF error_msg \notin Range(msgs) THEN Append(msgs, error_msg) ELSE msgs

NoExc == [type |-> None, id |-> 0, msg |-> None]
NoSaved == [set |-> FALSE, fwd |-> <<>>]

\* the state before a transformed module's forward is called
IdleRun ==
  /\ pc = "idle"
  /\ i = 0
  /\ backtrack_to = None
  /\ result = <<None, 0>>
  /\ exc = NoExc
  /\ predictors_to_original_forward = [s \in Predictors |-> NoSaved]
  /\ predictor_feedbacks = [s \in StepsOrNone |-> <<>>]
  /\ failure_traces = [s \in StepsOrNone |-> <<>>]
  /\ trace = <<>>
  /\ extended_signature = [s \in Predictors |-> DeclaredKeys(s)]
  /\ forward = [s \in Predictors |-> <<>>]
  /\ saved_flags = <<FALSE, FALSE>>
  /\ flags0 = <<bypass_assert, bypass_suggest>>
  /\ calls = 0
  /\ outcomes = <<>>
  /\ onlySoft = TRUE
  /\ lastRaised = [type |-> None, id |-> 0, msg |-> None, attempt |-> 0]
  /\ retOf = <<None, 0>>
  /\ failLog = [s \in StepsOrNone |-> <<>>]

\* a module with a forward, not transformed
Untransformed ==
  /\ module_forward = "original"
  /\ module__forward = None
  /\ transforms = 0
  /\ frames = 0
  /\ at = "idle"

\* the module after one assert_transform_module
TransformedOnce ==
  /\ module_forward = "handler"
  /\ module__forward = "original"
  /\ transforms = 1
  /\ frames = 0
  /\ at = "idle"

InitPrim ==
  /\ registry = [k \in Keys |-> NoObj]
  /\ nextId = 1
  /\ bypass_assert \in BOOLEAN
  /\ bypass_suggest \in BOOLEAN
  /\ lastEval = NoEval
  /\ pinned = NoPin
  /\ max_backtracks = 0
  /\ target_module = None
  /\ IdleRun
  /\ Untransformed

\* cls(result, msg, target_module) evaluated by the program
Construct(cls, res, msg, tmod, keep) ==
  /\ NextUuid(registry, nextId, res, msg, tmod) <= MaxObjects + 1
  /\ registry' = Registered(registry, nextId, cls, res, msg, tmod)
  /\ nextId' = NextUuid(registry, nextId, res, msg, tmod)
  /\ lastEval' = [cls |-> cls, result |-> res, msg |-> msg,
                  target_module |-> tmod,
                  id |-> Bound(registry, nextId, cls, res, msg, tmod).id,
                  out |-> Evaluate(registry, nextId, cls, res, msg, tmod,
                                   bypass_assert, bypass_suggest)]
  /\ pinned' = IF pinned = NoPin /\ keep THEN Pin(lastEval) ELSE pinned
  /\ UNCHANGED <<bypass_assert, bypass_suggest, runVars, histVars, modVars>>

\* the flags as the surrounding program configures them
SetBypass(ba, bs) ==
  /\ <<ba, bs>> # <<bypass_assert, bypass_suggest>>
  /\ bypass_assert' = ba
  /\ bypass_suggest' = bs
  /\ lastEval' = NoEval
  /\ UNCHANGED <<registry, nextId, pinned, runVars, histVars, modVars>>

NextPrim ==
  \/ \E cls \in Classes, res \in Results, msg \in Msgs, t \in ConstraintTargets :
       Construct(cls, res, msg, t, FALSE)
  \/ \E ba \in BOOLEAN, bs \in BOOLEAN : SetBypass(ba, bs)

\* constraints constructed and evaluated under any flags
SpecPrim == InitPrim /\ [][NextPrim]_vars

InitDedup ==
  /\ InitPrim
  /\ bypass_assert = FALSE
  /\ bypass_suggest = FALSE

NextDedup ==
  \E cls \in Classes, res \in Results, msg \in Msgs, t \in ConstraintTargets :
    \E keep \in BOOLEAN : Construct(cls, res, msg, t, keep)

\* constraints constructed one after the other, one of them remembered
SpecDedup == InitDedup /\ [][NextDedup]_vars

\* ---------------------------------------------------------------- the backtracking handler
\* results of the constraints a pipeline evaluates: a constraint with result True
\* passes and changes nothing a run reads
PipelineResults == {"False", "0"}

\* what the k-th pipeline invocation of a run returns, and what a step invoked in
\* it produces: opaque values, told apart by the invocation they come from
ValueOf(k) == <<"value", k>>
OutputOf(k) == <<"output", k>>

\* bypass_assert arguments of a call: None when the call passes none
BypassArgs == {None, "True"}

Init ==
  /\ registry = [k \in Keys |-> NoObj]
  /\ nextId = 1
  /\ bypass_assert \in BOOLEAN
  /\ bypass_suggest \in BOOLEAN
  /\ lastEval = NoEval
  /\ pinned = NoPin
  /\ max_backtracks \in 0..MaxBacktracks
  /\ target_module \in HandlerTargets
  /\ IdleRun
  /\ TransformedOnce

\* handle_assert_forward.forward up to the first iteration of the handler's loop
CallForward(bypass_arg) ==
  /\ pc = "idle"
  /\ bypass_assert' = IF bypass_arg = None THEN bypass_assert ELSE (bypass_arg = "True")
  /\ backtrack_to' = None
  /\ result' = <<None, 0>>
  /\ predictors_to_original_forward' = [s \in Predictors |-> NoSaved]
  /\ predictor_feedbacks' = [s \in StepsOrNone |-> <<>>]
  /\ failure_traces' = [s \in StepsOrNone |-> <<>>]
  /\ i' = 0
  /\ pc' = "loop"
  /\ UNCHANGED <<registry, nextId, bypass_suggest, lastEval, pinned, max_backtracks,
                 target_module, exc, trace, extended_signature, forward, saved_flags,
                 histVars, modVars>>

\* the flags inside the with block of bypass_suggest_handler, entered with flags ba, bs
bypass_suggest_handlerMutKeepAssert(ba, bs) == <<ba, TRUE>>
bypass_suggest_handler(ba, bs) == <<FALSE, TRUE>>

\* i == max_backtracks: iteration k of a run with budget n is the last one
IsLastMutOffByOne(k, n) == k = n + 1
IsLast(k, n) == k = n

\* the head of one iteration: the augmentation of backtrack_to, then the call of func,
\* under bypass_suggest_handler in the last iteration
LoopHead ==
  /\ pc = "loop"
  /\ IF i > 0 /\ backtrack_to # None
       THEN /\ predictors_to_original_forward' =
                 [predictors_to_original_forward EXCEPT
                    ![backtrack_to] = [set |-> TRUE, fwd |-> forward[backtrack_to]]]
            /\ extended_signature' =
                 [extended_signature EXCEPT
                    ![backtrack_to] = _extend_predictor_signature(@, InjectedKeys)]
            /\ forward' =
                 [forward EXCEPT
                    ![backtrack_to] =
                       Append(@, [fb |-> _build_error_msg(predictor_feedbacks[backtrack_to]),
                                  tr |-> _build_trace_passages(failure_traces[backtrack_to])])]
       ELSE UNCHANGED <<predictors_to_original_forward, extended_signature, forward>>
  /\ IF IsLast(i, max_backtracks)
       THEN /\ saved_flags' = <<bypass_assert, bypass_suggest>>
            /\ bypass_assert' = bypass_suggest_handler(bypass_assert, bypass_suggest)[1]
            /\ bypass_suggest' = bypass_suggest_handler(bypass_assert, bypass_suggest)[2]
            /\ pc' = "forced"
       ELSE /\ pc' = "run"
            /\ UNCHANGED <<saved_flags, bypass_suggest, bypass_assert>>
  /\ calls' = calls + 1
  /\ UNCHANGED <<registry, nextId, lastEval, pinned, max_backtracks, target_module, i,
                 backtrack_to, result, exc, predictor_feedbacks, failure_traces, trace,
                 flags0, outcomes, onlySoft, lastRaised, retOf, failLog, modVars>>

\* the pipeline invokes step s with keyword arguments kwargs: the step's forward
\* records (step, kwargs, prediction) in dsp.settings.trace; given is what the
\* caller passed, kept for the properties
Invoke(s, kwargs) ==
  /\ pc \in {"run", "forced"}
  /\ Len(trace) < MaxTrace
  /\ trace' = Append(trace, [mod |-> s,
                             given |-> kwargs,
                             ip |-> new_forward(forward[s], kwargs),
                             op |-> [out |-> OutputOf(calls),
                                     injected |-> HasInjected(extended_signature[s])]])
  /\ UNCHANGED <<primVars, pc, max_backtracks, target_module, i, backtrack_to, result,
                 exc, predictors_to_original_forward, predictor_feedbacks,
                 failure_traces, extended_signature, forward, saved_flags, histVars,
                 modVars>>

\* the pipeline invokes step s and passes none of the injected fields
PipelineStep(s) == Invoke(s, NoKwargs)

\* the pipeline invokes step s, which the handler has augmented, and passes its own
\* values for the injected fields
PipelineStepExplicit(s) ==
  /\ predictors_to_original_forward[s].set
  /\ Invoke(s, ExplicitKwargs)

\* the handler's loop is left: the revert of the extended predictors
RevertAll ==
  /\ extended_signature' =
       [s \in Predictors |->
          IF predictors_to_original_forward[s].set
            THEN _revert_predictor_signature(extended_signature[s], RevertedKeys)
            ELSE extended_signature[s]]
  /\ forward' =
       [s \in Predictors |->
          IF predictors_to_original_forward[s].set
            THEN predictors_to_original_forward[s].fwd
            ELSE forward[s]]

\* leaving the with block of bypass_suggest_handler, if the call of func is in it
ExitContext ==
  IF pc = "forced"
    THEN /\ bypass_assert' = saved_flags[1]
         /\ bypass_suggest' = saved_flags[2]
    ELSE UNCHANGED <<bypass_assert, bypass_suggest>>

\* the pipeline returns: the loop breaks and the handler returns
PipelineReturn ==
  /\ pc \in {"run", "forced"}
  /\ ExitContext
  /\ result' = ValueOf(calls)
  /\ RevertAll
  /\ pc' = "done"
  /\ outcomes' = Append(outcomes, "return")
  /\ retOf' = ValueOf(calls)
  /\ UNCHANGED <<registry, nextId, lastEval, pinned, max_backtracks, target_module, i,
                 backtrack_to, exc, predictors_to_original_forward, predictor_feedbacks,
                 failure_traces, trace, saved_flags, flags0, calls, onlySoft,
                 lastRaised, failLog, modVars>>

\* the except clause for a caught suggestion error e
Handle(e) ==
  IF trace = <<>>
    \* e.state[-1] of an empty list
    THEN /\ exc' = Raise("IndexError", 0, None)
         /\ pc' = "raised"
         /\ UNCHANGED <<i, backtrack_to, predictor_feedbacks, failure_traces, trace,
                        failLog>>
    ELSE LET error_state == Last(trace)
             bt == Resolve(backtrack_to, trace, target_module)
             error_op == [error_state.op EXCEPT !.injected = FALSE]
         IN /\ backtrack_to' = bt
            /\ predictor_feedbacks' =
                 [predictor_feedbacks EXCEPT ![bt] = SaveFeedback(@, e.msg)]
            /\ failure_traces' =
                 [failure_traces EXCEPT
                    ![bt] = DictSet(@, e.id, [id |-> e.id, ip |-> error_state.ip,
                                              op |-> error_op, msg |-> e.msg])]
            /\ trace' = [trace EXCEPT ![Len(trace)].op = error_op]
            /\ failLog' = [failLog EXCEPT ![bt] = Append(@, e.msg)]
            \* the scan of line 301 rebinds i; the for statement of line 249 then
            \* binds it to the next value of its range
            /\ i' = i + 1
            /\ pc' = "loop"
            /\ UNCHANGED exc

\* the pipeline evaluates cls(res, msg): it passes, or it raises and the handler
\* catches the exception or lets it through
PipelineConstraint(cls, res, msg) ==
  /\ pc \in {"run", "forced"}
  /\ LET e == Evaluate(registry, nextId, cls, res, msg, None,
                       bypass_assert, bypass_suggest)
     IN /\ registry' = Registered(registry, nextId, cls, res, msg, None)
        /\ nextId' = NextUuid(registry, nextId, res, msg, None)
        /\ onlySoft' = (onlySoft /\ cls = "Suggest" /\ res = "False")
        /\ IF e.type = "ok"
             THEN UNCHANGED <<bypass_assert, bypass_suggest, pc, i, backtrack_to, exc,
                              predictor_feedbacks, failure_traces, trace, outcomes,
                              lastRaised, failLog>>
             ELSE /\ lastRaised' = [type |-> e.type, id |-> e.id, msg |-> e.msg,
                                    attempt |-> calls]
                  /\ outcomes' = Append(outcomes, e.type)
                  /\ IF pc = "run" /\ Catches(e.type)
                       THEN /\ Handle(e)
                            /\ UNCHANGED <<bypass_assert, bypass_suggest>>
                       ELSE /\ ExitContext
                            /\ exc' = e
                            /\ pc' = "raised"
                            /\ UNCHANGED <<i, backtrack_to, predictor_feedbacks,
                                           failure_traces, trace, failLog>>
  /\ UNCHANGED <<lastEval, pinned, max_backtracks, target_module, result,
                 predictors_to_original_forward, extended_signature, forward,
                 saved_flags, flags0, calls, retOf, modVars>>

Next ==
  \/ \E a \in BypassArgs : CallForward(a)
  \/ LoopHead
  \/ \E s \in Steps : PipelineStep(s)
  \/ \E cls \in Classes, res \in PipelineResults, msg \in Msgs :
       PipelineConstraint(cls, res, msg)
  \/ PipelineReturn

\* one call of a transformed module's forward, handled by suggest_backtrack_handler
Spec == Init /\ [][Next]_vars

\* ---------------------------------------------------------------- the module transformer
InitTransform ==
  /\ registry = [k \in Keys |-> NoObj]
  /\ nextId = 1
  /\ bypass_assert = FALSE
  /\ bypass_suggest = FALSE
  /\ lastEval = NoEval
  /\ pinned = NoPin
  /\ max_backtracks = 0
  /\ target_module = None
  /\ IdleRun
  /\ module_forward \in {"original", None}
  /\ module__forward = None
  /\ transforms = 0
  /\ frames = 0
  /\ at = "idle"

\* assert_transform_module(module)
Transform ==
  /\ at = "idle"
  /\ transforms < MaxTransforms
  /\ transforms' = transforms + 1
  /\ IF module_forward = None
       THEN /\ at' = "ValueError"
            /\ UNCHANGED <<module_forward, module__forward>>
       ELSE /\ module__forward' = module_forward
            /\ module_forward' = "handler"
            /\ UNCHANGED at
  /\ UNCHANGED <<primVars, runVars, histVars, frames>>

\* module.forward(...) is called
CallModule ==
  /\ at = "idle"
  /\ module_forward # None
  /\ IF module_forward = "handler"
       THEN at' = "handler" /\ frames' = 1
       ELSE at' = "original" /\ frames' = 0
  /\ UNCHANGED <<primVars, runVars, histVars, module_forward, module__forward, transforms>>

\* the forward of handle_assert_forward: assertion_handler(self._forward) is called,
\* and calls self._forward in its first iteration
HandlerForward ==
  /\ at = "handler"
  /\ IF module__forward = "handler"
       THEN IF frames < RecursionLimit
              THEN at' = "handler" /\ frames' = frames + 1
              ELSE at' = "RecursionError" /\ frames' = 0
       ELSE at' = "original" /\ UNCHANGED frames
  /\ UNCHANGED <<primVars, runVars, histVars, module_forward, module__forward, transforms>>

\* the module's original forward returns, and the frames above it return its value
OriginalReturns ==
  /\ at = "original"
  /\ at' = "returned"
  /\ frames' = 0
  /\ UNCHANGED <<primVars, runVars, histVars, module_forward, module__forward, transforms>>

\* the caller goes on after the call or the failed transformation
AfterCall ==
  /\ at \in {"returned", "RecursionError", "ValueError"}
  /\ at' = "idle"
  /\ UNCHANGED <<primVars, runVars, histVars, module_forward, module__forward, transforms,
                 frames>>

NextTransform ==
  \/ Transform
  \/ CallModule
  \/ HandlerForward
  \/ OriginalReturns
  \/ AfterCall

\* a module transformed any number of times, and calls of its forward
SpecTransform == InitTransform /\ [][NextTransform]_vars

\* ---------------------------------------------------------------- default flags
InitDefault ==
  /\ Init
  /\ bypass_assert = FALSE
  /\ bypass_suggest = FALSE

\* a run started with the two flags at their defaults
SpecDefault == InitDefault /\ [][Next]_vars

\* ---------------------------------------------------------------- explicit values
InitExplicit ==
  /\ InitDefault
  /\ target_module = None

NextExplicit ==
  \/ Next
  \/ \E s \in Steps : PipelineStepExplicit(s)

\* a run over a pipeline that passes its own values for the injected fields to some
\* of its step invocations
SpecExplicit == InitExplicit /\ [][NextExplicit]_vars

\* ---------------------------------------------------------------- two concurrent runs
\* what a step invoked by the other run's pipeline produces
OtherOutput == <<"other", 0>>

\* the pipeline of another top-level run invokes its step s while this run is under
\* way: the step's forward records its entry in the same dsp.settings.trace
OtherPipelineStep(s) ==
  /\ pc \in {"loop", "run", "forced"}
  /\ Len(trace) < MaxTrace
  /\ trace' = Append(trace, [mod |-> s,
                             given |-> NoKwargs,
                             ip |-> new_forward(forward[s], NoKwargs),
                             op |-> [out |-> OtherOutput,
                                     injected |-> HasInjected(extended_signature[s])]])
  /\ UNCHANGED <<primVars, pc, max_backtracks, target_module, i, backtrack_to, result,
                 exc, predictors_to_original_forward, predictor_feedbacks,
                 failure_traces, extended_signature, forward, saved_flags, histVars,
                 modVars>>

NextConcurrent ==
  \/ Next
  \/ \E s \in OtherSteps : OtherPipelineStep(s)

\* a run, and the step invocations of another run interleaved with it
SpecConcurrent == Init /\ [][NextConcurrent]_vars

\* ---------------------------------------------------------------- properties
Soft == "DSPySuggestionError"
Hard == "DSPyAssertionError"

\* the exception a pipeline invocation raised last, as the caller would see it
Original == [type |-> lastRaised.type, id |-> lastRaised.id, msg |-> lastRaised.msg]

\* the pipeline evaluated only failing Suggests, and no invocation but the last
\* possible one (number max_backtracks + 1) returned
AlwaysFailsSoft ==
  /\ onlySoft
  /\ \A k \in 1..Len(outcomes) : outcomes[k] = "return" => k = max_backtracks + 1

\* C1: a pipeline whose soft constraint fails on every invocation, and that raises
\* nothing else, is invoked exactly max_backtracks + 1 times; the last invocation
\* runs with soft violations suppressed and does not raise, and the handler returns
\* the value of that invocation.
C1_BoundedRetry ==
  AlwaysFailsSoft =>
    /\ pc # "raised"
    /\ (pc \in {"run", "forced"} /\ calls = max_backtracks + 1) =>
         (pc = "forced" /\ bypass_suggest)
    /\ pc = "done" =>
         /\ calls = max_backtracks + 1
         /\ outcomes[calls] = "return"
         /\ result = ValueOf(calls)

\* C2: after a run, however it ends, every step augmented during the run has the
\* keys and the forward it had before the run.
C2_Cleanup ==
  pc \in {"done", "raised"} =>
    \A s \in Predictors :
      predictors_to_original_forward[s].set =>
        /\ extended_signature[s] = DeclaredKeys(s)
        /\ forward[s] = <<>>

\* C3: a hard violation raised by the pipeline in any attempt leaves the handler
\* unchanged, and the pipeline is not invoked again.
C3_HardPropagates ==
  lastRaised.type = Hard =>
    /\ pc = "raised"
    /\ exc = Original
    /\ calls = lastRaised.attempt

\* a hard violation left the handler in an attempt after the first, with attempts left
C3_Witness ==
  /\ pc = "raised"
  /\ exc.type = Hard
  /\ calls >= 2
  /\ calls <= max_backtracks

\* C4: after a soft violation caught with a non-empty trace, backtrack_to is the step
\* of the last trace entry when no target is configured, and the step of the latest
\* entry whose signature is the target when one is configured and matches.
C4_TargetResolution ==
  (pc = "loop" /\ i > 0 /\ trace # <<>>) =>
    /\ target_module = None => backtrack_to = trace[Len(trace)].mod
    /\ target_module # None =>
         \A k \in 1..Len(trace) :
           ( /\ Signature(trace[k].mod) = target_module
             /\ \A j \in (k + 1)..Len(trace) : Signature(trace[j].mod) # target_module )
           => backtrack_to = trace[k].mod

\* the trace is [A, B, A], the target is B's signature, and B is resolved
C4_Witness ==
  /\ pc = "loop"
  /\ i > 0
  /\ Len(trace) = 3
  /\ <<trace[1].mod, trace[2].mod, trace[3].mod>> = <<"A", "B", "A">>
  /\ target_module = "sigB"
  /\ backtrack_to = "B"

\* the entries of a list without the repetitions of an earlier entry
FirstOccurrences(log) ==
  LET idx == {k \in 1..Len(log) : \A j \in 1..(k - 1) : log[j] # log[k]}
  IN [n \in 1..Cardinality(idx) |->
        log[CHOOSE k \in idx : Cardinality({j \in idx : j < k}) = n - 1]]

\* the entries of a list with a newline between each two
Lines(list) ==
  [n \in 1..(IF list = <<>> THEN 0 ELSE 2 * Len(list) - 1) |->
     IF n % 2 = 1 THEN list[(n + 1) \div 2] ELSE "\n"]

\* C5: the feedback text a step is augmented with is the newline-join of the distinct
\* messages recorded against it in the run, in the order of their first occurrence.
C5_FeedbackText ==
  (pc \in {"run", "forced"} /\ i > 0 /\ backtrack_to # None) =>
    Last(forward[backtrack_to]).fb = Lines(FirstOccurrences(failLog[backtrack_to]))

\* a step failed with m1, with m2 and with m1 again, and is augmented with "m1\nm2"
C5_Witness ==
  /\ pc \in {"run", "forced"}
  /\ backtrack_to # None
  /\ failLog[backtrack_to] = <<"m1", "m2", "m1">>
  /\ Last(forward[backtrack_to]).fb = <<"m1", "\n", "m2">>

\* C6: a Suggest with result False, evaluated with bypass_suggest unset, raises a
\* DSPySuggestionError with its message, and an Assert with result False, evaluated
\* with bypass_assert unset, a DSPyAssertionError with its message, whatever was
\* constructed before.
C6_KindOfViolation ==
  /\ (lastEval.cls = "Suggest" /\ lastEval.result = "False" /\ ~bypass_suggest) =>
       (lastEval.out.type = Soft /\ lastEval.out.msg = lastEval.msg)
  /\ (lastEval.cls = "Assert" /\ lastEval.result = "False" /\ ~bypass_assert) =>
       (lastEval.out.type = Hard /\ lastEval.out.msg = lastEval.msg)

\* C7: an Assert with result False passes when bypass_assert is set, whatever
\* bypass_suggest is and whatever was constructed before, and raises a
\* DSPyAssertionError with its message when bypass_assert is unset.
C7_HardBypass ==
  (lastEval.cls = "Assert" /\ lastEval.result = "False") =>
    IF bypass_assert
      THEN lastEval.out.type = "ok"
      ELSE lastEval.out.type = Hard /\ lastEval.out.msg = lastEval.msg

\* C8: two constructions with the same (result, msg, target_module) use the same
\* constraint id, and two constructions with different messages use different ids,
\* whatever was constructed before and in between.
C8_Dedup ==
  (pinned # NoPin /\ lastEval # NoEval) =>
    /\ ( /\ pinned.result = lastEval.result
         /\ pinned.msg = lastEval.msg
         /\ pinned.target_module = lastEval.target_module ) => pinned.id = lastEval.id
    /\ pinned.msg # lastEval.msg => pinned.id # lastEval.id

\* a tuple is constructed again after constraints with other tuples were constructed
C8_Witness ==
  /\ pinned # NoPin
  /\ pinned.result = lastEval.result
  /\ pinned.msg = lastEval.msg
  /\ pinned.id = lastEval.id
  /\ nextId > pinned.id + 1

\* no step can be resolved from the trace
Unresolvable ==
  \/ trace = <<>>
  \/ /\ target_module # None
     /\ \A k \in 1..Len(trace) : Signature(trace[k].mod) # target_module

\* C9: when a soft violation is caught and no step can be resolved, the handler
\* re-raises that violation: it does not go on to another attempt, records no
\* feedback, and raises no other error.
C9_UnresolvedIsFatal ==
  /\ (pc = "loop" /\ i > 0) => ~Unresolvable
  /\ (pc = "raised" /\ lastRaised.type = Soft) => exc = Original
  /\ predictor_feedbacks[None] = <<>>
  /\ failure_traces[None] = <<>>

\* C10: after the call of a transformed module's forward has returned or raised, the
\* two bypass flags have the values they had before the call.
C10_FlagsRestored ==
  pc \in {"done", "raised"} => <<bypass_assert, bypass_suggest>> = flags0

\* C11: a constraint of either kind whose result is not a boolean raises a ValueError
\* when it is evaluated, whatever the bypass flags are and whatever was constructed
\* before: it neither raises a violation nor passes.
C11_NonBooleanIsValueError ==
  lastEval.result = "0" => lastEval.out.type = "ValueError"

\* C12: with another top-level run over a pipeline of other steps under way, the
\* step a run resolves as its backtrack target is a step of its own pipeline, and
\* every exemplar it records holds an output produced by its own pipeline.
C12_OwnTraceOnly ==
  /\ backtrack_to \notin OtherSteps
  /\ \A s \in StepsOrNone :
       \A k \in 1..Len(failure_traces[s]) : failure_traces[s][k].op.out # OtherOutput

\* C13 as stated: in the forced attempt only bypass_suggest is forced: bypass_assert
\* is what it was when the handler was entered (the flags are written by nothing
\* between the entry and the with block, which saves them).
C13_OnlySoftForced ==
  pc = "forced" => (bypass_suggest /\ bypass_assert = saved_flags[1])

\* C13: in the forced attempt bypass_suggest is set and bypass_assert is unset,
\* whatever the flags were when the handler was entered.
C13_ForcedFlags ==
  pc = "forced" => (bypass_suggest /\ ~bypass_assert)

\* the forced attempt of a run entered with bypass_assert set, after earlier attempts
C13_Witness ==
  /\ pc = "forced"
  /\ saved_flags[1]
  /\ calls >= 2

\* what C14 says of every state of a run
C14_Bounded ==
  /\ calls <= max_backtracks + 1
  /\ pc = "loop" => (i <= max_backtracks /\ calls = i)
  /\ \A k \in 1..Len(outcomes) : outcomes[k] = "return" => (k = Len(outcomes) /\ k = calls)
  /\ pc \in {"run", "forced"} => Len(outcomes) = calls - 1
  /\ pc = "done" => (outcomes[calls] = "return" /\ result = ValueOf(calls))

\* what is left of a run: it decreases with every step of the handler
Variant ==
  IF pc \in {"done", "raised"} THEN 0
  ELSE IF pc = "idle" THEN 2 * (max_backtracks + 1) + 2
  ELSE 2 * (max_backtracks + 1 - i) + (IF pc = "loop" THEN 1 ELSE 0)

\* C14: a run makes at most max_backtracks + 1 pipeline invocations, makes none after
\* one that returned, returns the value of the last invocation it made, and ends when
\* its invocations do: what is left of the run is never negative, stays the same
\* while an invocation is under way and decreases with every other step.
C14_Termination ==
  /\ []C14_Bounded
  /\ [](Variant >= 0)
  /\ [][\/ Variant' < Variant
        \/ (pc \in {"run", "forced"} /\ pc' = pc /\ Variant' = Variant)]_vars

\* a run with budget 3 returned the value of its fourth invocation
C14_Witness ==
  /\ pc = "done"
  /\ max_backtracks = MaxBacktracks
  /\ calls = max_backtracks + 1
  /\ result = ValueOf(calls)

\* C15: a step augmented any number of times in a run, and not reverted, has the two
\* injected keys once each, "_assert_feedback" right after "question" and
\* "_assert_traces" right after it, and its declared keys in their declared order.
C15_SchemaShape ==
  \A s \in Predictors :
    (pc \in {"loop", "run", "forced"} /\ predictors_to_original_forward[s].set) =>
      LET keys == extended_signature[s]
          q == Position(keys, "question")
      IN /\ Len(keys) = Len(DeclaredKeys(s)) + 2
         /\ keys[q + 1] = "_assert_feedback"
         /\ keys[q + 2] = "_assert_traces"
         /\ SelectSeq(keys, LAMBDA k : k \notin Range(InjectedKeys)) = DeclaredKeys(s)

\* step B, whose "question" is not its first key, was augmented three times
C15_Witness ==
  /\ pc \in {"run", "forced"}
  /\ Len(forward["B"]) = 3
  /\ extended_signature["B"] =
       <<"context", "question", "_assert_feedback", "_assert_traces", "answer">>

\* what the Feedback Store holds for step s, rendered: the recorded messages, each
\* once, joined by newlines, and one passage per exemplar
Rendered(s) ==
  [has |-> TRUE,
   fb |-> Lines(FirstOccurrences(failLog[s])),
   tr |-> [k \in 1..Len(failure_traces[s]) |->
             [msg |-> failure_traces[s][k].msg, op |-> failure_traces[s][k].op]]]

\* entry k of the trace was recorded by the invocation under way
Current(k) == pc \in {"run", "forced"} /\ trace[k].op.out = OutputOf(calls)

\* C16: in every invocation of a run, a step augmented so far and invoked without
\* values for the injected fields receives the rendering of what the Feedback Store
\* holds for it now; a step invoked with values of its own receives those.
C16_CurrentRendering ==
  \A k \in 1..Len(trace) :
    (Current(k) /\ predictors_to_original_forward[trace[k].mod].set) =>
      trace[k].ip = IF trace[k].given.has THEN trace[k].given
                    ELSE Rendered(trace[k].mod)

\* in one invocation, a step augmented twice with different feedback received the
\* later rendering, and an augmented step called with its own values received them
C16_Witness ==
  \E k, j \in 1..Len(trace) :
    /\ Current(k) /\ Current(j)
    /\ Len(forward[trace[k].mod]) >= 2
    /\ forward[trace[k].mod][1].fb # Last(forward[trace[k].mod]).fb
    /\ trace[k].given = NoKwargs
    /\ trace[k].ip = Rendered(trace[k].mod)
    /\ predictors_to_original_forward[trace[j].mod].set
    /\ trace[j].given = ExplicitKwargs
    /\ trace[j].ip = ExplicitKwargs

\* C17: an attempt after the first starts with, and holds, no trace entry recorded by
\* an earlier attempt of the run, so that the entry the handler takes on a soft
\* violation (the last one, no target being configured) was recorded by the attempt
\* that failed.
C17_FreshTrace ==
  /\ (pc \in {"run", "forced"} /\ calls >= 2) =>
       \A k \in 1..Len(trace) : trace[k].op.out = OutputOf(calls)
  /\ (pc = "loop" /\ i > 0 /\ trace # <<>> /\ target_module = None) =>
       Last(trace).op.out = OutputOf(calls)

\* one list is the beginning of the other
IsPrefix(a, b) == Len(a) <= Len(b) /\ SubSeq(b, 1, Len(a)) = a

\* the ids that have an exemplar in an ordered dict
IdsOf(d) == {d[k].id : k \in 1..Len(d)}

\* C18: within a run every step of the handler leaves each recorded message in its
\* list at its position, and leaves an exemplar under every constraint id that had
\* one: the Feedback Store only grows.
C18_StoreGrows ==
  [][\A s \in StepsOrNone :
       /\ IsPrefix(predictor_feedbacks[s], predictor_feedbacks'[s])
       /\ IdsOf(failure_traces[s]) \subseteq IdsOf(failure_traces'[s])]_vars

\* step A failed with m1, with m2 and with m1 again: two messages, two exemplars, the
\* first of them replaced by the third failure
C18_Witness ==
  /\ failLog["A"] = <<"m1", "m2", "m1">>
  /\ predictor_feedbacks["A"] = <<"m1", "m2">>
  /\ Len(failure_traces["A"]) = 2
  /\ failure_traces["A"][1].msg = "m1"
  /\ failure_traces["A"][1].op.out = OutputOf(3)

\* the messages of the exemplars of a step
MsgsOf(d) == {d[k].msg : k \in 1..Len(d)}

\* what C19 says of every state: the exemplars of a step and its list hold the same
\* messages
C19_SameMessages ==
  \A s \in StepsOrNone : MsgsOf(failure_traces[s]) = Range(predictor_feedbacks[s])

\* C19: in every state of a run the messages of a step's exemplars are the messages
\* of its list, and a step of the handler that writes an exemplar under an id that
\* had one leaves the message under that id as it was.
C19_StoreConsistent ==
  /\ []C19_SameMessages
  /\ [][\A s \in StepsOrNone :
          \A k \in 1..Len(failure_traces[s]) :
            \A j \in 1..Len(failure_traces'[s]) :
              failure_traces'[s][j].id = failure_traces[s][k].id =>
                failure_traces'[s][j].msg = failure_traces[s][k].msg]_vars

\* step B has two messages and two exemplars after three failures, one exemplar
\* having been overwritten
C19_Witness ==
  /\ Len(failLog["B"]) = 3
  /\ Cardinality(Range(predictor_feedbacks["B"])) = 2
  /\ Cardinality(IdsOf(failure_traces["B"])) = 2
  /\ MsgsOf(failure_traces["B"]) = {"m1", "m2"}

\* C20: however often the module was transformed, a call of its forward reaches the
\* forward the module had before the first transformation: the handler's forward
\* calls the original forward and not itself, and the call does not end in a
\* RecursionError.
C20_Retransform ==
  /\ at = "handler" => module__forward = "original"
  /\ at # "RecursionError"

====
